---- MODULE Spec2Model ----
(***************************************************************************)
(* A model of pyquad: the bounding-box geometry, the point quadtree        *)
(* (src/point_quadtree.py) and the region quadtree                         *)
(* (src/pyquad/region_quadtree.py).                                        *)
(*                                                                         *)
(* Numbers.  Coordinates are Python ints and floats.  Every coordinate the *)
(* model meets is a dyadic rational, which a float holds exactly, so a     *)
(* coordinate c is kept as the integer c * Unit (fixed point, Unit a power *)
(* of two large enough that every halving the model performs is exact).    *)
(***************************************************************************)
EXTENDS Integers, Sequences, FiniteSets, TLC

VARIABLES
    tree,        \* point quadtree: path from the root -> Node
    point,       \* argument of the last Node.insert call on the root
    ret,         \* what that call returned: "True", "False"; "none" before any
    before,      \* the tree as it was when that call started
    array,          \* region quadtree: the grid handed to RegionQuadTree(...)
    arg_max_depth,  \* its max_depth argument
    split_func,     \* its split_func argument: "std" (np.std) or "var" (np.var)
    split_thresh,   \* its split_thresh argument
    max_depth,      \* the attribute self.max_depth
    rtree,          \* the tree under self.root: path from the root -> RegionNode
    built,          \* whether the constructor has run
    gbox,        \* geometry: a BoundingBox a caller constructed
    gtiles,      \* what gbox.split() returned
    gpoint,      \* the point last tested
    ghits,       \* contains(gpoint) of gbox and of each tile
    gphase,      \* "none", then "box", "split" and "probed"
    sarray,      \* spadmon: the array handed to RegionQuadTree(array)
    stree,       \* the nodes under it: path from the root -> node
    sbuilt,      \* whether the constructor has run
    sinsert,     \* the arguments of a later root.insert call, once made
    sret         \* what that call returned: "True", "False"; "none" before

pvars == <<tree, point, ret, before>>

rvars == <<array, arg_max_depth, split_func, split_thresh, max_depth, rtree,
           built>>

gvars == <<gbox, gtiles, gpoint, ghits, gphase>>

svars == <<sarray, stree, sbuilt, sinsert, sret>>

vars == <<pvars, rvars, gvars, svars>>

-----------------------------------------------------------------------------
(* Bounds *)

\* number of successful inserts a behaviour may make into one point tree
MaxInserts == 7

\* largest grid handed to the region quadtree
MaxRows == 2

MaxCols == 3

\* at most this many cells of a grid hold the high value, the rest hold 0
MaxHot == 2

\* largest max_depth argument handed to the region quadtree
MaxDepthArg == 2

\* boxes of the geometry checks have integer bounds in 0..MaxCoord
MaxCoord == 3

\* one coordinate unit in fixed point
Unit == 2 ^ (MaxInserts + 1)

Fx(k) == k * Unit

\* Python's x / 2 on a fixed-point number (exact: x is even wherever used)
Half(x) == x \div 2

\* Python's int(x) on a fixed-point number: truncation towards zero
Trunc(x) == IF x >= 0 THEN (x \div Unit) * Unit ELSE -(((-x) \div Unit) * Unit)

Min(a, b) == IF a <= b THEN a ELSE b

Max(a, b) == IF a >= b THEN a ELSE b

-----------------------------------------------------------------------------
(* Geometry: BBox of point_quadtree.py, BoundingBox of geometry_objects.py *)

CHILDREN_NAMES == <<"nw", "ne", "se", "sw">>

Quadrants == {CHILDREN_NAMES[i] : i \in 1..4}

\* Point(x, y, value); value is <<>> for None and <<v>> for the number v
Point(x, y, value) == [x |-> x, y |-> y, value |-> value]

\* the dataclass constructor with __post_init__: no check of the bounds, and
\* the attribute mid computed from rx and ty alone
BoundingBox(lx, rx, ty, by) ==
    [lx |-> lx, rx |-> rx, ty |-> ty, by |-> by,
     mid |-> <<Half(rx), Half(ty)>>]

\* contains() with the left and bottom edges kept out
ContainsStrict(b, p) ==
    /\ p.x > b.lx
    /\ p.x < b.rx
    /\ p.y > b.by
    /\ p.y < b.ty

\* contains() with the right edge let in
ContainsClosedRight(b, p) ==
    /\ p.x >= b.lx
    /\ p.x <= b.rx
    /\ p.y >= b.by
    /\ p.y < b.ty

Contains(b, p) ==
    /\ p.x >= b.lx
    /\ p.x < b.rx
    /\ p.y >= b.by
    /\ p.y < b.ty

\* the midpoint read from the attribute mid instead of computed from the bounds
MidAttribute(b) == Point(b.mid[1], b.mid[2], <<>>)

mid_point(b) == Point(Half(b.rx + b.lx), Half(b.ty + b.by), <<>>)

\* split() with the upper and the lower tiles exchanged
SplitFlipped(b) ==
    LET mid == mid_point(b) IN
    [nw |-> BoundingBox(b.lx, mid.x, mid.y, b.by),
     ne |-> BoundingBox(mid.x, b.rx, mid.y, b.by),
     se |-> BoundingBox(mid.x, b.rx, b.ty, mid.y),
     sw |-> BoundingBox(b.lx, mid.x, b.ty, mid.y)]

\* TiledBBox(nw, ne, se, sw)
Split(b) ==
    LET mid == mid_point(b) IN
    [nw |-> BoundingBox(b.lx, mid.x, b.ty, mid.y),
     ne |-> BoundingBox(mid.x, b.rx, b.ty, mid.y),
     se |-> BoundingBox(mid.x, b.rx, mid.y, b.by),
     sw |-> BoundingBox(b.lx, mid.x, mid.y, b.by)]

-----------------------------------------------------------------------------
(* Point quadtree: class Node of point_quadtree.py *)

\* the depth limit written into Node.insert
NodeMaxDepth == 5

\* the variance threshold written into Node.insert, 0.08 = ThreshNum / ThreshDen
ThreshNum == 8

ThreshDen == 100

\* Node.__init__
Node(bounding_box, depth) ==
    [bounding_box |-> bounding_box, depth |-> depth, points |-> <<>>,
     divided |-> FALSE]

\* [pnt.value if pnt.value != None else 0 for pnt in self.points]
Values(points) ==
    [i \in 1..Len(points) |->
        IF points[i].value = <<>> THEN 0 ELSE points[i].value[1]]

RECURSIVE SumSeq(_)
SumSeq(s) == IF s = <<>> THEN 0 ELSE s[1] + SumSeq(Tail(s))

SumSq(s) == SumSeq([i \in 1..Len(s) |-> s[i] * s[i]])

\* statistics.variance(values) > 0.08 and self.depth < 5, for two or more
\* values: the sample variance is (n*Sum(x^2) - Sum(x)^2) / (n*(n-1))
SplitTest(node) ==
    LET v == Values(node.points)
        n == Len(v)
    IN  /\ ThreshDen * (n * SumSq(v) - SumSeq(v) * SumSeq(v))
               > ThreshNum * n * (n - 1)
        /\ node.depth < NodeMaxDepth

\* a divide that hands the node's points over: its own list is emptied
DividePruning(t, path) ==
    LET tiles == Split(t[path].bounding_box)
        depth == t[path].depth + 1
        kids  == {Append(path, q) : q \in Quadrants}
    IN  [n \in DOMAIN t \cup kids |->
            IF n \in kids THEN Node(tiles[n[Len(n)]], depth)
            ELSE IF n = path
                 THEN [t[n] EXCEPT !.divided = TRUE, !.points = <<>>]
            ELSE t[n]]

\* Node.divide on the node at path
Divide(t, path) ==
    LET tiles == Split(t[path].bounding_box)
        depth == t[path].depth + 1
        kids  == {Append(path, q) : q \in Quadrants}
    IN  [n \in DOMAIN t \cup kids |->
            IF n \in kids THEN Node(tiles[n[Len(n)]], depth)
            ELSE IF n = path THEN [t[n] EXCEPT !.divided = TRUE]
            ELSE t[n]]

\* a division repeated on every visit, whether or not the node is divided
AlwaysDivide(t, path) == Divide(t, path)

\* lines 163-164: the node is divided unless it already is
EnsureDivided(t, path) == IF ~t[path].divided THEN Divide(t, path) ELSE t

\* Node.insert on the node at path; the result is the tree afterwards and the
\* value returned.  The variance test of lines 143-161 fills four local lists
\* and changes nothing of the node: the division below it is unconditional.
RECURSIVE Insert(_, _, _)
Insert(t, path, p) ==
    IF ~Contains(t[path].bounding_box, p)
    THEN [tree |-> t, ret |-> FALSE]
    ELSE
      LET t1 == [t EXCEPT ![path].points = Append(@, p)] IN
      IF Len(t1[path].points) < 2
      THEN [tree |-> t1, ret |-> TRUE]
      ELSE
        LET t2 == EnsureDivided(t1, path)
            ne == Insert(t2, Append(path, "ne"), p)
        IN  IF ne.ret THEN ne ELSE
            LET nw == Insert(ne.tree, Append(path, "nw"), p) IN
            IF nw.ret THEN nw ELSE
            LET se == Insert(nw.tree, Append(path, "se"), p) IN
            IF se.ret THEN se ELSE
            Insert(se.tree, Append(path, "sw"), p)

-----------------------------------------------------------------------------
(* The point tree as a state machine *)

\* root boxes a caller passes to Node(...): the spec's example box, and the
\* same square written top-down (ty < by), which nothing rejects
RootBoxes ==
    {BoundingBox(Fx(0), Fx(4), Fx(4), Fx(0)),
     BoundingBox(Fx(0), Fx(4), Fx(0), Fx(4))}

\* points a caller inserts: the spec's three example points, the centre of
\* the root box (on both midlines, no value), and a point on the right edge
\* of the root box (outside: the box is half-open)
InsertPoints ==
    {Point(Fx(1), Fx(1), <<0>>),
     Point(Fx(3), Fx(3), <<10>>),
     Point(Fx(1), Fx(3), <<0>>),
     Point(Fx(2), Fx(2), <<>>),
     Point(Fx(4), Fx(1), <<0>>)}

\* the parts of the state a specification does not use
PointIdle ==
    /\ tree = (<<>> :> Node(BoundingBox(0, 0, 0, 0), 0))
    /\ point = Point(0, 0, <<>>)
    /\ ret = "none"
    /\ before = tree

RegionIdle ==
    /\ array = [shape |-> <<0, 0>>, at |-> <<>>]
    /\ arg_max_depth = 0
    /\ split_func = "std"
    /\ split_thresh = 0
    /\ max_depth = 0
    /\ rtree = <<>>
    /\ built = FALSE

GeomIdle ==
    /\ gbox = BoundingBox(0, 0, 0, 0)
    /\ gtiles = Split(gbox)
    /\ gpoint = Point(0, 0, <<>>)
    /\ ghits = <<>>
    /\ gphase = "none"

SpadIdle ==
    /\ sarray = [shape |-> <<0, 0>>, at |-> <<>>]
    /\ stree = <<>>
    /\ sbuilt = FALSE
    /\ sinsert = <<>>
    /\ sret = "none"

InitPoint ==
    /\ \E b \in RootBoxes : tree = (<<>> :> Node(b, 0))
    /\ point = Point(0, 0, <<>>)
    /\ ret = "none"
    /\ before = tree
    /\ RegionIdle
    /\ GeomIdle
    /\ SpadIdle

\* root.insert(p)
InsertPoint(p) ==
    /\ Len(tree[<<>>].points) < MaxInserts
    /\ LET r == Insert(tree, <<>>, p) IN
        /\ tree' = r.tree
        /\ ret' = IF r.ret THEN "True" ELSE "False"
    /\ point' = p
    /\ before' = tree
    /\ UNCHANGED <<rvars, gvars, svars>>

NextPoint == \E p \in InsertPoints : InsertPoint(p)

SpecPoint == InitPoint /\ [][NextPoint]_vars

-----------------------------------------------------------------------------
(* Claims about the point tree, checked under SpecPoint *)

Root == tree[<<>>]

\* lx <= p.x < rx and by <= p.y < ty, written out
InsideBox(b, p) == b.lx <= p.x /\ p.x < b.rx /\ b.by <= p.y /\ p.y < b.ty

\* C1: after any sequence of inserts no node of a point tree is deeper than
\* max_depth (5): a node at depth 5 never subdivides.
C1_DepthBound == \A n \in DOMAIN tree : tree[n].depth <= NodeMaxDepth

\* C5: insert(p) returns true only if p lies inside the root box; for a point
\* outside it insert returns false and the tree is as it was before the call
\* (no list grew, no node subdivided), whatever inserts came before.
C5_OutOfBoundsRejected ==
    ret # "none" =>
        /\ ret = "True" => InsideBox(Root.bounding_box, point)
        /\ ~InsideBox(Root.bounding_box, point) =>
               ret = "False" /\ tree = before

\* C5 witness: a point outside the root box was offered to a tree that earlier
\* inserts had already subdivided, and was refused.
C5_Witness ==
    /\ ret = "False"
    /\ ~InsideBox(Root.bounding_box, point)
    /\ Root.divided
    /\ Len(Root.points) >= 3
    /\ \E q \in Quadrants : tree[<<q>>].divided

\* nodes that the last insert call divided
NewlyDivided ==
    {n \in DOMAIN tree :
        tree[n].divided /\ (n \notin DOMAIN before \/ ~before[n].divided)}

\* C10: a node subdivides during insert only when, after the append, it holds
\* at least 2 points, the variance of its values exceeds 0.08 and its depth is
\* below max_depth; a childless node failing that test stays a leaf.
C10_DivideOnlyOnTest ==
    \A n \in NewlyDivided : Len(tree[n].points) >= 2 /\ SplitTest(tree[n])

\* the children of node n, present or not
KidsOf(n) == {Append(n, q) : q \in Quadrants}

\* the list node k held before the last call (none, if the call created k)
PointsBefore(k) == IF k \in DOMAIN before THEN before[k].points ELSE <<>>

\* the last call appended its point to node k's list
Received(k) ==
    /\ k \in DOMAIN tree
    /\ tree[k].points = Append(PointsBefore(k), point)

\* C11: when a node that has children accepts a point, the point is appended
\* to the list of exactly one child, the one whose box contains it, and to no
\* other child.  With root {lx:0, rx:4, ty:4, by:0}, after (1,1,v=0) and
\* (3,3,v=10) the root is divided, and a third point (1,3,v=0) lands in the NW
\* child, whose box is {lx:0, rx:2, ty:4, by:2}.
C11_RoutedToOneChild ==
    /\ ret = "True" =>
          \A n \in DOMAIN tree :
              (tree[n].divided /\ Received(n)) =>
                  \E k \in KidsOf(n) :
                      /\ Received(k)
                      /\ InsideBox(tree[k].bounding_box, point)
                      /\ \A j \in KidsOf(n) \ {k} :
                            /\ j \in DOMAIN tree
                            /\ tree[j].points = PointsBefore(j)
                            /\ ~InsideBox(tree[j].bounding_box, point)
    /\ (/\ Root.bounding_box = BoundingBox(Fx(0), Fx(4), Fx(4), Fx(0))
        /\ Len(Root.points) >= 2
        /\ SubSeq(Root.points, 1, 2) = <<Point(Fx(1), Fx(1), <<0>>),
                                         Point(Fx(3), Fx(3), <<10>>)>>)
       => /\ Root.divided
          /\ (Len(Root.points) = 3 /\ point = Point(Fx(1), Fx(3), <<0>>)
                 /\ ret = "True")
             => /\ tree[<<"nw">>].points = <<point>>
                /\ tree[<<"nw">>].bounding_box
                      = [lx |-> Fx(0), rx |-> Fx(2), ty |-> Fx(4), by |-> Fx(2),
                         mid |-> <<Fx(1), Fx(2)>>]

\* C11 witness: the spec's example, after its third insert.
C11_Witness ==
    /\ ret = "True"
    /\ Root.points = <<Point(Fx(1), Fx(1), <<0>>), Point(Fx(3), Fx(3), <<10>>),
                       Point(Fx(1), Fx(3), <<0>>)>>
    /\ Root.divided
    /\ Received(<<"nw">>)


\* how many times p occurs in the list s
Count(s, p) == Cardinality({i \in DOMAIN s : s[i] = p})

\* the list s is the beginning of the list l
IsPrefixOf(s, l) == Len(s) <= Len(l) /\ SubSeq(l, 1, Len(s)) = s

\* C14: points accumulate along their insertion path and are never pruned:
\* a child's list is a sub-multiset of its parent's, an insert removes or
\* reorders no element of any node's list, and the root's list grows by
\* exactly the point of each successful insert, in insertion order.
C14_PointsNeverPruned ==
    /\ \A n \in DOMAIN tree : \A k \in KidsOf(n) \cap DOMAIN tree :
          \A i \in DOMAIN tree[k].points :
              Count(tree[k].points, tree[k].points[i])
                  <= Count(tree[n].points, tree[k].points[i])
    /\ \A n \in DOMAIN before :
          n \in DOMAIN tree /\ IsPrefixOf(before[n].points, tree[n].points)
    /\ ret = "none" => Root.points = <<>>
    /\ ret = "True" => Root.points = Append(before[<<>>].points, point)
    /\ ret = "False" => Root.points = before[<<>>].points

\* C14 witness: after an accepted insert the root holds three or more points
\* and a node two levels down holds some of them, fewer than its parent.
C14_Witness ==
    /\ ret = "True"
    /\ Len(Root.points) >= 3
    /\ \E n \in DOMAIN tree :
          /\ Len(n) = 2
          /\ tree[n].points # <<>>
          /\ Len(tree[n].points) < Len(tree[SubSeq(n, 1, 1)].points)
          /\ Len(tree[SubSeq(n, 1, 1)].points) < Len(Root.points)


\* the box of quadrant q of the box b, written out
QuadrantOf(b, q) ==
    LET mx == Half(b.lx + b.rx)
        my == Half(b.ty + b.by)
    IN  CASE q = "nw" -> [lx |-> b.lx, rx |-> mx, ty |-> b.ty, by |-> my]
          [] q = "ne" -> [lx |-> mx, rx |-> b.rx, ty |-> b.ty, by |-> my]
          [] q = "se" -> [lx |-> mx, rx |-> b.rx, ty |-> my, by |-> b.by]
          [] q = "sw" -> [lx |-> b.lx, rx |-> mx, ty |-> my, by |-> b.by]

Bounds(b) == [lx |-> b.lx, rx |-> b.rx, ty |-> b.ty, by |-> b.by]

\* C15: between insert calls a node has either no children or all four, each
\* at depth parent + 1 with the matching quadrant of the parent's box; and an
\* insert leaves every divided node divided with the same four child nodes:
\* no node is removed, moved or created anew (its list only grows).
C15_DivideOneWayAtomic ==
    /\ \A n \in DOMAIN tree :
          \/ ~tree[n].divided /\ KidsOf(n) \cap DOMAIN tree = {}
          \/ /\ tree[n].divided
             /\ KidsOf(n) \subseteq DOMAIN tree
             /\ \A q \in Quadrants :
                   /\ tree[Append(n, q)].depth = tree[n].depth + 1
                   /\ Bounds(tree[Append(n, q)].bounding_box)
                        = QuadrantOf(tree[n].bounding_box, q)
    /\ \A n \in DOMAIN before :
          /\ n \in DOMAIN tree
          /\ tree[n].bounding_box = before[n].bounding_box
          /\ tree[n].depth = before[n].depth
          /\ before[n].divided => tree[n].divided
          /\ IsPrefixOf(before[n].points, tree[n].points)
          /\ Len(tree[n].points) <= Len(before[n].points) + 1

\* C15 witness: an insert went through a node that was already divided and
\* into a child of it that already held a point.
C15_Witness ==
    /\ ret = "True"
    /\ before[<<>>].divided
    /\ \E k \in KidsOf(<<>>) \cap DOMAIN before :
          /\ before[k].points # <<>>
          /\ tree[k].points = Append(before[k].points, point)


\* C17: for a root box with lx < rx and by < ty, every insert of a point
\* inside the root box comes back with true, after any earlier inserts: at
\* each divided node whose box holds the point exactly one child's box holds
\* it too, so the offer to the children never fails for such a point.
C17_InBoundsAccepted ==
    ( /\ ret # "none"
      /\ Root.bounding_box.lx < Root.bounding_box.rx
      /\ Root.bounding_box.by < Root.bounding_box.ty
      /\ InsideBox(Root.bounding_box, point) ) =>
        /\ ret = "True"
        /\ \A n \in DOMAIN tree :
              (tree[n].divided /\ InsideBox(tree[n].bounding_box, point)) =>
                  Cardinality({k \in KidsOf(n) :
                                 InsideBox(tree[k].bounding_box, point)}) = 1

\* C17 witness: the centre of the root box, on the midlines of the split, is
\* accepted by a root that was already divided and holds three or more points.
C17_Witness ==
    /\ ret = "True"
    /\ Root.bounding_box.lx < Root.bounding_box.rx
    /\ Root.bounding_box.by < Root.bounding_box.ty
    /\ before[<<>>].divided
    /\ Len(Root.points) >= 3
    /\ point.x = Half(Root.bounding_box.lx + Root.bounding_box.rx)
    /\ point.y = Half(Root.bounding_box.ty + Root.bounding_box.by)

-----------------------------------------------------------------------------
(* The bounding box on its own: construction, split() and contains() *)

\* bounds a caller may hand to BoundingBox(...), well-formed or not
BoxCoords == {Fx(k) : k \in 0..MaxCoord}

\* coordinates of the points tested: every half unit from 0 to MaxCoord
ProbeCoords == {Half(Fx(k)) : k \in 0..(2 * MaxCoord)}

\* contains(p) of a box and of the four tiles of its split
Hits(b, tiles, p) ==
    [box |-> Contains(b, p),
     nw |-> Contains(tiles.nw, p), ne |-> Contains(tiles.ne, p),
     se |-> Contains(tiles.se, p), sw |-> Contains(tiles.sw, p)]

InitGeom == GeomIdle /\ PointIdle /\ RegionIdle /\ SpadIdle

\* BoundingBox(lx, rx, ty, by): the constructor takes whatever it is given
NewBox(lx, rx, ty, by) ==
    /\ gphase = "none"
    /\ gbox' = BoundingBox(lx, rx, ty, by)
    /\ gphase' = "box"
    /\ UNCHANGED <<gtiles, gpoint, ghits, pvars, rvars, svars>>

\* gbox.split()
SplitBox ==
    /\ gphase = "box"
    /\ gtiles' = Split(gbox)
    /\ gphase' = "split"
    /\ UNCHANGED <<gbox, gpoint, ghits, pvars, rvars, svars>>

\* contains(p) asked of gbox and of each of its tiles
Probe(p) ==
    /\ gphase \in {"split", "probed"}
    /\ gpoint' = p
    /\ ghits' = Hits(gbox, gtiles, p)
    /\ gphase' = "probed"
    /\ UNCHANGED <<gbox, gtiles, pvars, rvars, svars>>

NextGeom ==
    \/ \E lx, rx, ty, by \in BoxCoords : NewBox(lx, rx, ty, by)
    \/ SplitBox
    \/ \E x, y \in ProbeCoords : Probe(Point(x, y, <<>>))

SpecGeom == InitGeom /\ [][NextGeom]_vars

-----------------------------------------------------------------------------
(* Claims about the bounding box, checked under SpecGeom *)

\* how many of the four tiles reported that they contain the point
TileHits == Cardinality({q \in Quadrants : ghits[q]})

\* C6: for a box with lx < rx and by < ty and any point p, p satisfies
\* contains() of exactly one tile of split() when the box contains p, and of
\* none when it does not.
C6_SplitPartitions ==
    (gphase = "probed" /\ gbox.lx < gbox.rx /\ gbox.by < gbox.ty) =>
        TileHits = (IF ghits.box THEN 1 ELSE 0)

\* C6 witness: a well-formed box was split and a point on both of its midlines
\* was found in the box and in one tile.
C6_Witness ==
    /\ gphase = "probed"
    /\ gbox.lx < gbox.rx /\ gbox.by < gbox.ty
    /\ gpoint.x = gtiles.nw.rx /\ gpoint.y = gtiles.nw.by
    /\ ghits.box
    /\ TileHits = 1

\* the coordinates of the point mid_point() returns
MidPointXY(b) == <<mid_point(b).x, mid_point(b).y>>

\* the centre of a box
Centre(b) == <<Half(b.lx + b.rx), Half(b.ty + b.by)>>

\* C13: for every well-formed box (the quadrants of a split included) the mid
\* attribute set at construction and the value mid_point() returns both equal
\* ((lx + rx) / 2, (ty + by) / 2).
C13_MidIsCentre ==
    (gphase # "none" /\ gbox.lx < gbox.rx /\ gbox.by < gbox.ty) =>
        /\ gbox.mid = Centre(gbox)
        /\ MidPointXY(gbox) = Centre(gbox)
        /\ gphase # "box" =>
              \A q \in Quadrants :
                  /\ gtiles[q].mid = Centre(gtiles[q])
                  /\ MidPointXY(gtiles[q]) = Centre(gtiles[q])

\* C9: an invalid configuration is refused at construction: constructing a
\* BoundingBox with lx >= rx or by >= ty fails and produces no box, so every
\* box that exists is well-formed.  (The other half of the claim, a tree
\* constructed with max_depth <= 0, is C9_NonPositiveDepthRefused below.)
C9_MalformedBoxRefused ==
    gphase # "none" => (gbox.lx < gbox.rx /\ gbox.by < gbox.ty)

-----------------------------------------------------------------------------
(* Region quadtree: RegionNode and RegionQuadTree of pyquad/region_quadtree.py *)

\* the indices (i, j) of an array of shape (rows, cols)
Indices(rows, cols) == (0..(rows - 1)) \X (0..(cols - 1))

\* A 2-d numpy array: its shape (rows, cols) and its cells, indexed from 0.
Array2D(rows, cols, cells) == [shape |-> <<rows, cols>>, at |-> cells]

\* where a slice bound i falls in a dimension of length n (Python's
\* slice.indices: a negative bound counts from the end, all are clipped)
SliceBound(i, n) == IF i < 0 THEN Max(i + n, 0) ELSE Min(i, n)

\* a[ty:by, lx:rx] taken with the rows and columns of the parent's own block,
\* as if the bounds were relative to it
SliceLocal(a, ty, by, lx, rx) ==
    LET r0 == 0
        c0 == 0
        nr == Max(SliceBound(by, a.shape[1]) - SliceBound(ty, a.shape[1]), 0)
        nc == Max(SliceBound(rx, a.shape[2]) - SliceBound(lx, a.shape[2]), 0)
    IN  Array2D(nr, nc,
                [ij \in Indices(nr, nc) |-> a.at[<<r0 + ij[1], c0 + ij[2]>>]])

\* a[ty:by, lx:rx]
Slice(a, ty, by, lx, rx) ==
    LET r0 == SliceBound(ty, a.shape[1])
        c0 == SliceBound(lx, a.shape[2])
        nr == Max(SliceBound(by, a.shape[1]) - r0, 0)
        nc == Max(SliceBound(rx, a.shape[2]) - c0, 0)
    IN  Array2D(nr, nc,
                [ij \in Indices(nr, nc) |-> a.at[<<r0 + ij[1], c0 + ij[2]>>]])

\* a.flatten(): the cells row by row
Flatten(a) ==
    [k \in 1..(a.shape[1] * a.shape[2]) |->
        a.at[<<(k - 1) \div a.shape[2], (k - 1) % a.shape[2]>>]]

\* np.size(a)
Size(a) == a.shape[1] * a.shape[2]

\* split_func(values) for np.std and np.var.  The population variance of n
\* values is (n*Sum(x^2) - Sum(x)^2) / n^2, kept as the fraction num / den;
\* root says that the statistic is the square root of that fraction (np.std).
\* Of no values numpy returns nan (with a warning, raising nothing).
Dispersion(func, values) ==
    LET n == Len(values) IN
    IF n = 0
    THEN [nan |-> TRUE, num |-> 0, den |-> 1, root |-> func = "std"]
    ELSE [nan |-> FALSE,
          num |-> n * SumSq(values) - SumSeq(values) * SumSeq(values),
          den |-> n * n,
          root |-> func = "std"]

\* criteria <= thresh on floats: every comparison with nan is False
LessEq(criteria, thresh) ==
    /\ ~criteria.nan
    /\ IF criteria.root
       THEN thresh >= 0 /\ criteria.num <= thresh * thresh * criteria.den
       ELSE criteria.num <= thresh * criteria.den

\* BoundingBox.from_numpy
from_numpy(a) == BoundingBox(Fx(0), Fx(a.shape[2]), Fx(0), Fx(a.shape[1]))

\* to_int rounding outwards: the left and top bounds down, the others up
ToIntOutward(b) ==
    [b EXCEPT !.ty = Trunc(@), !.lx = Trunc(@),
              !.by = Trunc(@ + Unit - 1), !.rx = Trunc(@ + Unit - 1)]

\* BoundingBox.to_int: the four bounds truncated in place, mid left as it was
to_int(b) ==
    [b EXCEPT !.ty = Trunc(@), !.by = Trunc(@), !.lx = Trunc(@),
              !.rx = Trunc(@)]

\* an integer bound as an array index
Index(x) == x \div Unit

\* RegionNode.__init__; data and the children are None (<<>>) or <<value>>
RegionNode(a, bounding_box, depth, func) ==
    [bounding_box |-> bounding_box,
     depth |-> depth,
     split_criteria |-> Dispersion(func, Flatten(a)),
     data |-> <<a>>,
     divided |-> FALSE,
     leaf |-> TRUE]

\* RegionNode.split, lines 108-117: the box of child q of a node with box b
ChildBox(b, q) == to_int(Split(b)[q])

\* and the block of array it is given
ChildBlock(a, b, q) ==
    LET bbox == ChildBox(b, q) IN
    Slice(a, Index(bbox.ty), Index(bbox.by), Index(bbox.lx), Index(bbox.rx))

IsPrefix(p, n) == Len(p) <= Len(n) /\ SubSeq(n, 1, Len(p)) = p

\* node.split(a) on the node at path: four new children replace whatever was
\* below the node, and the node gives up its block
RegionSplit(t, path, a, func) ==
    LET node == t[path]
        kids == {Append(path, q) : q \in Quadrants}
        kept == {n \in DOMAIN t : ~(IsPrefix(path, n) /\ n # path)}
    IN  [n \in kept \cup kids |->
            IF n \in kids
            THEN RegionNode(ChildBlock(a, node.bounding_box, n[Len(n)]),
                            ChildBox(node.bounding_box, n[Len(n)]),
                            node.depth + 1, func)
            ELSE IF n = path
            THEN [node EXCEPT !.divided = TRUE, !.leaf = FALSE, !.data = <<>>]
            ELSE t[n]]

\* RegionQuadTree.__build(node, array) on the node at path.  st is the tree
\* with self.max_depth; a is the array every call is given (the whole grid).
RECURSIVE Build(_, _, _, _, _)
Build(st, path, a, func, thresh) ==
    LET t0 == st.tree
        node == t0[path]
        t1 == IF node.depth = 0 THEN RegionSplit(t0, path, a, func) ELSE t0
    IN  IF node.depth >= st.max_depth \/ LessEq(node.split_criteria, thresh)
        THEN [tree |-> [t1 EXCEPT ![path].leaf = TRUE],
              max_depth |-> IF node.depth > st.max_depth
                            THEN node.depth ELSE st.max_depth]
        ELSE
          LET s0 == [tree |-> RegionSplit(t1, path, a, func),
                     max_depth |-> st.max_depth]
              s1 == Build(s0, Append(path, CHILDREN_NAMES[1]), a, func, thresh)
              s2 == Build(s1, Append(path, CHILDREN_NAMES[2]), a, func, thresh)
              s3 == Build(s2, Append(path, CHILDREN_NAMES[3]), a, func, thresh)
          IN  Build(s3, Append(path, CHILDREN_NAMES[4]), a, func, thresh)

-----------------------------------------------------------------------------
(* The region tree as a state machine *)

\* the two values a grid's cells take: low and high
CellValues == <<0, 3>>

\* the grids handed in: every shape up to MaxRows x MaxCols, the high value in
\* at most MaxHot cells and the low value in the others
Grids ==
    UNION {
        {Array2D(r, c, [ij \in Indices(r, c) |->
                           IF ij \in hot THEN CellValues[2] ELSE CellValues[1]]) :
            hot \in {h \in SUBSET Indices(r, c) : Cardinality(h) <= MaxHot}} :
        r \in 1..MaxRows, c \in 1..MaxCols}

SplitFuncs == {"std", "var"}

SplitThreshs == {0, 2}

MaxDepthArgs == (-1)..MaxDepthArg

InitRegion ==
    /\ array \in Grids
    /\ arg_max_depth \in MaxDepthArgs
    /\ split_func \in SplitFuncs
    /\ split_thresh \in SplitThreshs
    /\ max_depth = arg_max_depth
    /\ rtree = <<>>
    /\ built = FALSE
    /\ PointIdle
    /\ GeomIdle
    /\ SpadIdle

\* RegionQuadTree(array, max_depth=..., split_func=..., split_thresh=...):
\* __init__ and __start, the whole decomposition
Construct ==
    /\ ~built
    /\ LET root == RegionNode(array, from_numpy(array), 0, split_func)
           s == Build([tree |-> (<<>> :> root), max_depth |-> arg_max_depth],
                      <<>>, array, split_func, split_thresh)
       IN  /\ rtree' = s.tree
           /\ max_depth' = s.max_depth
    /\ built' = TRUE
    /\ UNCHANGED <<array, arg_max_depth, split_func, split_thresh, pvars,
                   gvars, svars>>

NextRegion == Construct

SpecRegion == InitRegion /\ [][NextRegion]_vars

-----------------------------------------------------------------------------
(* Claims about the region tree, checked under SpecRegion *)

Kids(n) == {Append(n, q) : q \in Quadrants}

HasChildren(n) == \E k \in Kids(n) : k \in DOMAIN rtree

\* the grid cells (row, column) a box with integer bounds addresses
BoxCells(b) ==
    (Index(b.ty)..(Index(b.by) - 1)) \X (Index(b.lx)..(Index(b.rx) - 1))

\* the samples a node holds
Samples(n) == IF rtree[n].data = <<>> THEN <<>> ELSE Flatten(rtree[n].data[1])

\* C2: every node whose dispersion is <= threshold or whose depth is >=
\* max_depth, the root included, ends up a leaf with no children and with its
\* block retained (so a grid of identical values gives a single leaf).
\* Stated of the trees built with a positive max_depth.
C2_StoppedNodeIsLeaf ==
    (built /\ arg_max_depth >= 1) =>
        \A n \in DOMAIN rtree :
            (\/ rtree[n].depth >= arg_max_depth
             \/ LessEq(rtree[n].split_criteria, split_thresh))
            => /\ rtree[n].leaf
               /\ ~HasChildren(n)
               /\ rtree[n].data # <<>>

\* C3: in a finished tree every node without children that holds at least 2
\* samples has dispersion(samples) <= threshold or depth = max_depth.
\* Stated of the trees built with a positive max_depth.
C3_LeafDispersionBound ==
    (built /\ arg_max_depth >= 1) =>
        \A n \in DOMAIN rtree :
            (~HasChildren(n) /\ Len(Samples(n)) >= 2)
            => \/ LessEq(Dispersion(split_func, Samples(n)), split_thresh)
               \/ rtree[n].depth = arg_max_depth

\* C4: a tree built with max_depth = d, for every d the constructor accepts,
\* has no node deeper than d and no children under a node at depth d; with
\* d = 1 and the root's dispersion above the threshold it is the root and four
\* leaves at depth 1.
C4_RegionDepthBound ==
    built =>
        /\ \A n \in DOMAIN rtree :
              /\ rtree[n].depth <= arg_max_depth
              /\ rtree[n].depth = arg_max_depth => ~HasChildren(n)
        /\ (arg_max_depth = 1 /\ ~LessEq(rtree[<<>>].split_criteria, split_thresh))
           => /\ DOMAIN rtree = {<<>>} \cup Kids(<<>>)
              /\ \A k \in Kids(<<>>) : rtree[k].leaf /\ rtree[k].depth = 1

\* the block child k of a divided node holds, or was given before it was
\* divided in turn
BlockOf(n, k) ==
    IF rtree[k].data # <<>> THEN rtree[k].data[1]
    ELSE ChildBlock(array, rtree[n].bounding_box, k[Len(k)])

\* child k's block has cell (r, c) of the grid, at the place its box gives it
\* and with the grid's value
HoldsCell(n, k, r, c) ==
    LET b == rtree[k].bounding_box
        blk == BlockOf(n, k)
        ij == <<r - Index(b.ty), c - Index(b.lx)>>
    IN  ij \in DOMAIN blk.at /\ blk.at[ij] = array.at[<<r, c>>]

\* C7: for a parent block of any size, the four child blocks RegionNode.split
\* slices with the integer-truncated boxes are disjoint and together hold
\* every cell of the parent block exactly once, each at its original position.
C7_SliceInvariant ==
    built =>
        \A n \in DOMAIN rtree :
            HasChildren(n) =>
                /\ Kids(n) \subseteq DOMAIN rtree
                /\ \A rc \in BoxCells(rtree[n].bounding_box) :
                      Cardinality({k \in Kids(n) :
                                      HoldsCell(n, k, rc[1], rc[2])}) = 1
                /\ \A k \in Kids(n) :
                      /\ BoxCells(rtree[k].bounding_box)
                            \subseteq BoxCells(rtree[n].bounding_box)
                      /\ Size(BlockOf(n, k))
                            = Cardinality(BoxCells(rtree[k].bounding_box))

\* C7 witness: a finished tree in which a block with an odd number of columns
\* and a block with a single row were both split, the latter below the root.
C7_Witness ==
    /\ built
    /\ \E n \in DOMAIN rtree :
          /\ HasChildren(n)
          /\ Cardinality(BoxCells(rtree[n].bounding_box)) = 6
          /\ Index(rtree[n].bounding_box.rx) = 3
    /\ \E m \in DOMAIN rtree :
          /\ HasChildren(m)
          /\ rtree[m].depth = 1
          /\ Index(rtree[m].bounding_box.by) - Index(rtree[m].bounding_box.ty) = 1
          /\ Cardinality(BoxCells(rtree[m].bounding_box)) = 2

\* C8: a child whose block has zero rows or zero columns is made a leaf at
\* once and never subdivided, whatever max_depth remains.
C8_EmptyBlockIsLeaf ==
    built =>
        \A n \in DOMAIN rtree :
            (n # <<>> /\ BoxCells(rtree[n].bounding_box) = {})
            => rtree[n].leaf /\ ~HasChildren(n)

\* C9, for the tree: constructing a RegionQuadTree with a non-positive
\* max_depth fails and produces no tree, so every tree that exists was built
\* with max_depth >= 1.
C9_NonPositiveDepthRefused == built => arg_max_depth >= 1

-----------------------------------------------------------------------------
(* Runs that build one tree, of either kind *)

\* no grid was handed in: the run is one of a point tree
UsesPointTree == array = [shape |-> <<0, 0>>, at |-> <<>>]

InitTrees == InitPoint \/ InitRegion

NextTrees ==
    \/ UsesPointTree /\ NextPoint
    \/ ~UsesPointTree /\ NextRegion

SpecTrees == InitTrees /\ [][NextTrees]_vars

-----------------------------------------------------------------------------
(* Claims about the boxes of both trees, checked under SpecTrees *)

Width(b) == b.rx - b.lx

\* a point tree's boxes have by below ty
HeightUp(b) == b.ty - b.by

\* a region tree's boxes have ty (the first row) below by
HeightDown(b) == b.by - b.ty

\* two boxes of a point tree share a point
Overlap(a, b) == a.lx < b.rx /\ b.lx < a.rx /\ a.by < b.ty /\ b.by < a.ty

\* in the point tree a child's box lies inside its parent's, is strictly
\* smaller in width and height, and is disjoint from its siblings' boxes
PointBoxesNested ==
    \A n \in DOMAIN tree : \A k \in KidsOf(n) \cap DOMAIN tree :
        LET p == tree[n].bounding_box
            c == tree[k].bounding_box
        IN  /\ p.lx <= c.lx /\ c.rx <= p.rx /\ p.by <= c.by /\ c.ty <= p.ty
            /\ Width(c) < Width(p)
            /\ HeightUp(c) < HeightUp(p)
            /\ \A j \in (KidsOf(n) \cap DOMAIN tree) \ {k} :
                  ~Overlap(c, tree[j].bounding_box)

\* in the region tree a child's truncated box lies inside its parent's and
\* shares no cell with its siblings' boxes
RegionBoxesNested(n) ==
    \A k \in Kids(n) \cap DOMAIN rtree :
        LET p == rtree[n].bounding_box
            c == rtree[k].bounding_box
        IN  /\ p.lx <= c.lx /\ c.lx <= c.rx /\ c.rx <= p.rx
            /\ p.ty <= c.ty /\ c.ty <= c.by /\ c.by <= p.by
            /\ \A j \in (Kids(n) \cap DOMAIN rtree) \ {k} :
                  BoxCells(c) \cap BoxCells(rtree[j].bounding_box) = {}

\* the root was split because the stop test failed, not by the forced split
RootWentOn ==
    /\ built
    /\ arg_max_depth >= 1
    /\ ~LessEq(rtree[<<>>].split_criteria, split_thresh)

\* C12 as claimed: in every tree each child's box (in the region tree, the box
\* after integer truncation) lies inside its parent's box, is strictly smaller
\* than it in both width and height, and does not overlap its siblings' boxes.
\* Stated, for the region tree, of the non-empty parents of trees whose root
\* the stop test let through.
C12_StrictlySmaller ==
    /\ PointBoxesNested
    /\ RootWentOn =>
          \A n \in DOMAIN rtree :
              BoxCells(rtree[n].bounding_box) # {} =>
                  /\ RegionBoxesNested(n)
                  /\ \A k \in Kids(n) \cap DOMAIN rtree :
                        /\ Width(rtree[k].bounding_box)
                              < Width(rtree[n].bounding_box)
                        /\ HeightDown(rtree[k].bounding_box)
                              < HeightDown(rtree[n].bounding_box)

\* C12 amended: as claimed for the point tree; in the region tree a child's
\* truncated box lies inside its parent's, shares no cell with its siblings',
\* and is no wider and no higher than its parent's: strictly narrower where
\* the parent spans at least 2 columns, strictly lower where it spans at
\* least 2 rows.
C12_SmallerWhereDivisible ==
    /\ PointBoxesNested
    /\ built =>
          \A n \in DOMAIN rtree :
              /\ RegionBoxesNested(n)
              /\ \A k \in Kids(n) \cap DOMAIN rtree :
                    LET p == rtree[n].bounding_box
                        c == rtree[k].bounding_box
                    IN  /\ Width(c) <= Width(p)
                        /\ HeightDown(c) <= HeightDown(p)
                        /\ Width(p) >= Fx(2) => Width(c) < Width(p)
                        /\ HeightDown(p) >= Fx(2)
                              => HeightDown(c) < HeightDown(p)

\* C12 witness: a finished region tree whose root, one row of two or more
\* columns, the stop test let through: a child is as high as the root.
C12_Witness ==
    /\ RootWentOn
    /\ HeightDown(rtree[<<>>].bounding_box) = Fx(1)
    /\ Width(rtree[<<>>].bounding_box) >= Fx(2)
    /\ \E k \in Kids(<<>>) :
          /\ HeightDown(rtree[k].bounding_box) = Fx(1)
          /\ Width(rtree[k].bounding_box) < Width(rtree[<<>>].bounding_box)
          /\ BoxCells(rtree[k].bounding_box) # {}

-----------------------------------------------------------------------------
(* spadmon's RegionQuadTree: a node keeps its own array, box, depth and var *)

\* line 126: var < 0.15 or self.depth > 7
SpadThreshNum == 15

SpadThreshDen == 100

SpadMaxDepth == 7

\* the dataclass equality of two boxes: lx, rx, ty and by are compared
BoxEq(a, b) == a.lx = b.lx /\ a.rx = b.rx /\ a.ty = b.ty /\ a.by = b.by

\* the index box of divide written as from_numpy writes it
IndexBoxFromNumpy(a) == from_numpy(a)

\* divide, lines 79-82: BoundingBox.from_list([0, shape[0], 0, shape[1]])
IndexBox(a) == BoundingBox(Fx(0), Fx(a.shape[1]), Fx(0), Fx(a.shape[2]))

\* split_array: each tile's box made integer, then array[ty:by, lx:rx]
split_array(a, tiled_bbox) ==
    [q \in Quadrants |->
        LET b == to_int(tiled_bbox[q]) IN
        Slice(a, Index(b.ty), Index(b.by), Index(b.lx), Index(b.rx))]

\* var < 0.15 for var = np.std(array), compared on the squares
BelowThresh(var) ==
    /\ ~var.nan
    /\ var.num * SpadThreshDen * SpadThreshDen
         < SpadThreshNum * SpadThreshNum * var.den

RECURSIVE SpadInsert(_, _, _, _)
RECURSIVE SpadDivide(_, _)
RECURSIVE SpadNew(_, _, _, _, _)

\* RegionQuadTree(a, depth, bounding_box=...) placed at path: the attributes,
\* then self.insert(array, self.bounding_box), its result dropped.  The
\* argument bounding_box is <<>> (None) or <<box>>.
SpadNew(t, path, a, depth, bounding_box) ==
    LET bbox == IF bounding_box # <<>> THEN bounding_box[1] ELSE from_numpy(a)
        node == [array |-> a, bounding_box |-> bbox, depth |-> depth,
                 var |-> <<>>, divided |-> FALSE]
        t1 == [n \in DOMAIN t \cup {path} |-> IF n = path THEN node ELSE t[n]]
    IN  SpadInsert(t1, path, a, bbox).tree

\* self.divide() on the node at path
SpadDivide(t, path) ==
    LET node == t[path]
        arr_bbox == Split(IndexBox(node.array))
        tiled_bbox == Split(node.bounding_box)
        tiles == split_array(node.array, arr_bbox)
        depth == node.depth + 1
        t1 == SpadNew(t, Append(path, "nw"), tiles.nw, depth, <<tiled_bbox.nw>>)
        t2 == SpadNew(t1, Append(path, "ne"), tiles.ne, depth, <<tiled_bbox.ne>>)
        t3 == SpadNew(t2, Append(path, "se"), tiles.se, depth, <<tiled_bbox.se>>)
        t4 == SpadNew(t3, Append(path, "sw"), tiles.sw, depth, <<tiled_bbox.sw>>)
    IN  [t4 EXCEPT ![path].divided = TRUE]

\* self.insert(a, bounding_box) on the node at path; the result is the tree
\* afterwards and the value returned.  self.var == np.nan is always False.
SpadInsert(t, path, a, bounding_box) ==
    IF ~BoxEq(t[path].bounding_box, bounding_box)
    THEN [tree |-> t, ret |-> FALSE]
    ELSE IF Size(a) = 0
    THEN [tree |-> t, ret |-> FALSE]
    ELSE
      LET var == Dispersion("std", Flatten(a))
          t1 == [t EXCEPT ![path].var = <<var>>]
      IN
      IF BelowThresh(var) \/ t1[path].depth > SpadMaxDepth
      THEN [tree |-> t1, ret |-> TRUE]
      ELSE
        LET t2 == IF ~t1[path].divided THEN SpadDivide(t1, path) ELSE t1
            own == t2[path].bounding_box
            ne == SpadInsert(t2, Append(path, "ne"), a, own)
        IN  IF ne.ret THEN ne ELSE
            LET nw == SpadInsert(ne.tree, Append(path, "nw"), a, own) IN
            IF nw.ret THEN nw ELSE
            LET se == SpadInsert(nw.tree, Append(path, "se"), a, own) IN
            IF se.ret THEN se ELSE
            SpadInsert(se.tree, Append(path, "sw"), a, own)

-----------------------------------------------------------------------------
(* spadmon's tree as a state machine *)

\* arrays a caller hands to a later insert: the grids of one or two cells
SmallGrids == {g \in Grids : Size(g) <= 2}

InitSpadmon ==
    /\ sarray \in Grids
    /\ stree = <<>>
    /\ sbuilt = FALSE
    /\ sinsert = <<>>
    /\ sret = "none"
    /\ PointIdle
    /\ RegionIdle
    /\ GeomIdle

\* RegionQuadTree(sarray): the whole recursive construction
SpadConstruct ==
    /\ ~sbuilt
    /\ stree' = SpadNew(<<>>, <<>>, sarray, 0, <<>>)
    /\ sbuilt' = TRUE
    /\ UNCHANGED <<sarray, sinsert, sret, pvars, rvars, gvars>>

\* a later root.insert(a, b) by the caller
SpadInsertCall(a, b) ==
    /\ sbuilt
    /\ sinsert = <<>>
    /\ LET r == SpadInsert(stree, <<>>, a, b) IN
        /\ stree' = r.tree
        /\ sret' = IF r.ret THEN "True" ELSE "False"
    /\ sinsert' = <<[array |-> a, bounding_box |-> b]>>
    /\ UNCHANGED <<sarray, sbuilt, pvars, rvars, gvars>>

NextSpadmon ==
    \/ SpadConstruct
    \/ \E a \in SmallGrids \cup {sarray} :
          \E b \in {from_numpy(a), from_numpy(sarray)} : SpadInsertCall(a, b)

SpecSpadmon == InitSpadmon /\ [][NextSpadmon]_vars

-----------------------------------------------------------------------------
(* Claims about spadmon's tree, checked under SpecSpadmon *)

\* the cells of the array a that the tile q of the index box ib selects
TileCells(a, ib, q) ==
    LET b == to_int(Split(ib)[q]) IN
    {ij \in Indices(a.shape[1], a.shape[2]) :
        /\ Index(b.ty) <= ij[1] /\ ij[1] < Index(b.by)
        /\ Index(b.lx) <= ij[2] /\ ij[2] < Index(b.rx)}

\* C16: the index box divide slices a block of shape (rows, cols) with is
\* lx = 0, rx = cols, ty = 0, by = rows, as from_numpy gives it, so that for
\* every block shape the four tiles handed to the children together contain
\* each cell of the block exactly once.
C16_TilesCoverBlock ==
    \A n \in DOMAIN stree :
        stree[n].divided =>
            LET a == stree[n].array IN
            /\ BoxEq(IndexBox(a), IndexBoxFromNumpy(a))
            /\ \A q \in Quadrants :
                  stree[Append(n, q)].array
                      = split_array(a, Split(IndexBoxFromNumpy(a)))[q]
            /\ \A ij \in Indices(a.shape[1], a.shape[2]) :
                  Cardinality({q \in Quadrants :
                                 ij \in TileCells(a, IndexBox(a), q)}) = 1

====
